---- MODULE Spec2Model ----
(***************************************************************************)
(* organiQ: the interactive analysis loop of agentic_workflow/main.py, the *)
(* agents it registers and the two HTTP tools they are configured with.    *)
(*                                                                         *)
(* Text is a sequence of one-character strings, so that str.split,         *)
(* str.strip and re.sub are computed character by character.               *)
(***************************************************************************)
EXTENDS Integers, Sequences, FiniteSets, TLC

\* ------------------------------------------------------------------ bounds

\* iterations of the while loop of main() that a behaviour may start
MaxRuns == 2
\* events the runner.run_async streams of a behaviour may yield in all
MaxEvents == 2
\* nodes of a page the scraper may be served
MaxPage == 5
\* text[:8000] of scrape_tools.py:37, with 8000 scaled to the model's pages
MaxScrapeChars == 4
\* entries of the "organic" list of a search response
MaxOrganic == 6

\* ------------------------------------------------------------------ text

\* the characters str.strip() removes that occur in the model's alphabet
Whitespace == {" ", "\t", "\n", "\r", "\f"}

\* the class [a-zA-Z0-9] of the pattern of main.py:131
Alnum ==
  {"a","b","c","d","e","f","g","h","i","j","k","l","m",
   "n","o","p","q","r","s","t","u","v","w","x","y","z",
   "A","B","C","D","E","F","G","H","I","J","K","L","M",
   "N","O","P","Q","R","S","T","U","V","W","X","Y","Z",
   "0","1","2","3","4","5","6","7","8","9"}

\* "---BLOG_SEPARATOR---", main.py:151
Sep ==
  <<"-","-","-","B","L","O","G","_","S","E","P","A","R","A","T","O","R","-","-","-">>

RECURSIVE LStrip(_)
LStrip(s) ==
  IF s = <<>> THEN <<>>
  ELSE IF Head(s) \in Whitespace THEN LStrip(Tail(s)) ELSE s

RECURSIVE RStrip(_)
RStrip(s) ==
  IF s = <<>> THEN <<>>
  ELSE IF s[Len(s)] \in Whitespace THEN RStrip(SubSeq(s, 1, Len(s) - 1)) ELSE s

\* str.strip()
Strip(s) == RStrip(LStrip(s))

UpperLetters ==
  <<"A","B","C","D","E","F","G","H","I","J","K","L","M",
    "N","O","P","Q","R","S","T","U","V","W","X","Y","Z">>

LowerLetters ==
  <<"a","b","c","d","e","f","g","h","i","j","k","l","m",
    "n","o","p","q","r","s","t","u","v","w","x","y","z">>

LowerChar(c) ==
  IF \E i \in 1..Len(UpperLetters) : UpperLetters[i] = c
  THEN LowerLetters[CHOOSE i \in 1..Len(UpperLetters) : UpperLetters[i] = c]
  ELSE c

\* str.lower()
Lower(s) == [i \in 1..Len(s) |-> LowerChar(s[i])]

\* str.find(sep, from): the lowest index >= from at which sep occurs, 0 if none
RECURSIVE Find(_, _, _)
Find(s, sep, from) ==
  IF from + Len(sep) - 1 > Len(s) THEN 0
  ELSE IF SubSeq(s, from, from + Len(sep) - 1) = sep THEN from
  ELSE Find(s, sep, from + 1)

\* str.split(sep): cut at each occurrence found scanning left to right
RECURSIVE SplitFrom(_, _)
SplitFrom(s, sep) ==
  LET j == Find(s, sep, 1) IN
  IF j = 0 THEN <<s>>
  ELSE <<SubSeq(s, 1, j - 1)>> \o SplitFrom(SubSeq(s, j + Len(sep), Len(s)), sep)

Split(s, sep) == SplitFrom(s, sep)

\* re.sub(r'[^a-zA-Z0-9]', '_', s)
Sanitize(s) == [i \in 1..Len(s) |-> IF s[i] \in Alnum THEN s[i] ELSE "_"]

\* ------------------------------------------------------------- the agents

SearchTool == "search_internet"

ScrapeTool == "scrape_website"

CompetitorIdentifier ==
  [name |-> "identificador_concorrentes", tools |-> <<SearchTool, ScrapeTool>>]

CompetitorScraper ==
  [name |-> "agente_scraping_concorrentes", tools |-> <<ScrapeTool, SearchTool>>]

GapIdentifier == [name |-> "identificador_lacunas", tools |-> <<>>]

\* the writer given no tool
WriterWithoutTools == [name |-> "escritor", tools |-> <<>>]

Writer == [name |-> "escritor", tools |-> <<SearchTool>>]

OrchestratorGSO == [name |-> "orq_gso", tools |-> <<>>]

AEOOptimizer == [name |-> "agente_aeo", tools |-> <<>>]

SEOOptimizer == [name |-> "agente_seo", tools |-> <<>>]

GEOOptimizer == [name |-> "agente_geo", tools |-> <<>>]

\* the agents registered as tools of the router, main.py:28
tools ==
  <<CompetitorIdentifier, CompetitorScraper, GapIdentifier, Writer,
    OrchestratorGSO, AEOOptimizer, SEOOptimizer, GEOOptimizer>>

Range(f) == {f[i] : i \in DOMAIN f}

\* ----------------------------------------------------------- the HTTP tools

\* the sequences over S of length at most n
SeqsUpTo(S, n) == UNION {[1..k -> S] : k \in 0..n}

\* a node of a page: a character of text, inside or outside a script or style element
PageNodes ==
  {[tag |-> "text", ch |-> c] : c \in {"a", " ", "\n"}}
    \cup {[tag |-> t, ch |-> "x"] : t \in {"script", "style"}}

\* the final status codes requests may hand back
StatusCodes == {200, 304, 404, 503}

\* what requests.get may do: raise, or return a response
ScrapeFailures ==
  {[kind |-> k, status |-> 0, parses |-> FALSE, page |-> <<>>] :
     k \in {"ConnectionError", "Timeout"}}
    \cup {[kind |-> "response", status |-> st, parses |-> FALSE, page |-> <<>>] :
            st \in StatusCodes}

ScrapeAnswers ==
  ScrapeFailures
    \cup {[kind |-> "response", status |-> st, parses |-> TRUE, page |-> p] :
            st \in {200, 304}, p \in SeqsUpTo(PageNodes, MaxPage)}

\* an entry of "organic": a JSON object with some of the three keys, or another value
OrganicItems ==
  { [isObject |-> TRUE, title |-> "t1", link |-> "l1", snippet |-> "s1"],
    [isObject |-> TRUE, title |-> "t2", link |-> "None", snippet |-> "s2"] }

BadItem == [isObject |-> FALSE, title |-> "None", link |-> "None", snippet |-> "None"]

\* what requests.request may do for the search
SearchNoResults ==
  {[kind |-> k, status |-> 0, json |-> "invalid", hasOrganic |-> FALSE, organic |-> <<>>] :
     k \in {"ConnectionError", "Timeout"}}
    \cup {[kind |-> "response", status |-> st, json |-> j, hasOrganic |-> FALSE,
           organic |-> <<>>] : st \in StatusCodes, j \in {"invalid", "array", "object"}}

SearchAnswers ==
  SearchNoResults
    \cup {[kind |-> "response", status |-> st, json |-> "object", hasOrganic |-> TRUE,
           organic |-> o] :
            st \in {200, 304},
            o \in SeqsUpTo(OrganicItems, MaxOrganic) \cup {<<BadItem>>}}

\* Response.raise_for_status(): HTTPError for a 4xx or 5xx status
RaiseForStatus(status) == 400 <= status /\ status < 600

\* the characters str.splitlines() breaks a line at
LineBreaks == {"\n", "\r", "\f"}

\* str.splitlines(): "\r\n" is one break, and a final break opens no line
RECURSIVE SplitLinesFrom(_, _, _)
SplitLinesFrom(s, cur, open) ==
  IF s = <<>> THEN (IF open THEN <<cur>> ELSE <<>>)
  ELSE IF Head(s) = "\r" /\ Len(s) >= 2 /\ s[2] = "\n"
  THEN <<cur>> \o SplitLinesFrom(Tail(Tail(s)), <<>>, FALSE)
  ELSE IF Head(s) \in LineBreaks
  THEN <<cur>> \o SplitLinesFrom(Tail(s), <<>>, FALSE)
  ELSE SplitLinesFrom(Tail(s), Append(cur, Head(s)), TRUE)

SplitLines(s) == SplitLinesFrom(s, <<>>, FALSE)

\* for script in soup(["script", "style"]): script.decompose(); soup.get_text()
RECURSIVE GetText(_)
GetText(page) ==
  IF page = <<>> THEN <<>>
  ELSE IF Head(page).tag \in {"script", "style"} THEN GetText(Tail(page))
  ELSE <<Head(page).ch>> \o GetText(Tail(page))

\* phrase.strip() for line in lines for phrase in line.split("  "), the blank ones dropped
RECURSIVE Phrases(_)
Phrases(ps) ==
  IF ps = <<>> THEN <<>>
  ELSE IF Strip(Head(ps)) = <<>> THEN Phrases(Tail(ps))
  ELSE <<Strip(Head(ps))>> \o Phrases(Tail(ps))

RECURSIVE Chunks(_)
Chunks(lines) ==
  IF lines = <<>> THEN <<>>
  ELSE Phrases(Split(Strip(Head(lines)), <<" ", " ">>)) \o Chunks(Tail(lines))

\* sep.join(parts)
RECURSIVE Join(_, _)
Join(parts, sep) ==
  IF parts = <<>> THEN <<>>
  ELSE IF Len(parts) = 1 THEN Head(parts)
  ELSE Head(parts) \o sep \o Join(Tail(parts), sep)

\* scrape_tools.py:30-34
CleanText(text) == Join(Chunks(SplitLines(text)), <<"\n">>)

\* the text returned whole
TruncateNothing(s, n) == s

\* s[:n]
Truncate(s, n) == SubSeq(s, 1, IF Len(s) < n THEN Len(s) ELSE n)

\* the try block of ScrapeWebsiteTool.run: what it raises, or the text it returns
ScrapeTry(net) ==
  IF net.kind # "response" THEN [exc |-> net.kind, requests |-> 1, value |-> <<>>]
  ELSE IF RaiseForStatus(net.status)
  THEN [exc |-> "HTTPError", requests |-> 1, value |-> <<>>]
  ELSE IF ~net.parses
  THEN [exc |-> "ParserRejectedMarkup", requests |-> 1, value |-> <<>>]
  ELSE [exc |-> "none", requests |-> 1,
        value |-> Truncate(CleanText(GetText(net.page)), MaxScrapeChars)]

ScrapeErrorPrefix == "Error scraping website: "

\* ScrapeWebsiteTool.run: except Exception as e: return the error string
ScrapeRun(net) ==
  LET t == ScrapeTry(net) IN
  IF t.exc # "none"
  THEN [raised |-> FALSE, requests |-> t.requests, failed |-> TRUE,
        result |-> <<ScrapeErrorPrefix, t.exc>>]
  ELSE [raised |-> FALSE, requests |-> t.requests, failed |-> FALSE, result |-> t.value]

\* the Title/Link/Snippet block of one result, search_tools.py:32
Block(item) ==
  <<"Title: ", item.title, "\nLink: ", item.link, "\nSnippet: ", item.snippet, "\n">>

\* the loop putting each block in front of the ones before it
RECURSIVE BlocksNewestFirst(_)
BlocksNewestFirst(items) ==
  IF items = <<>> THEN <<>>
  ELSE BlocksNewestFirst(Tail(items)) \o <<Block(Head(items))>>

\* for result in organic[:5]: output.append(...)
RECURSIVE Blocks(_)
Blocks(items) ==
  IF items = <<>> THEN <<>> ELSE <<Block(Head(items))>> \o Blocks(Tail(items))

\* organic[:5], search_tools.py:31
TopResults == 5

\* the try block of SerperDevTool.run
SearchTry(net) ==
  IF net.kind # "response" THEN [exc |-> net.kind, requests |-> 1, value |-> <<>>]
  ELSE IF RaiseForStatus(net.status)
  THEN [exc |-> "HTTPError", requests |-> 1, value |-> <<>>]
  ELSE IF net.json = "invalid"
  THEN [exc |-> "JSONDecodeError", requests |-> 1, value |-> <<>>]
  ELSE IF net.json = "array"
  THEN [exc |-> "AttributeError", requests |-> 1, value |-> <<>>]
  ELSE LET organic == IF net.hasOrganic THEN net.organic ELSE <<>>
           top == Truncate(organic, TopResults)
       IN IF \E i \in 1..Len(top) : ~top[i].isObject
          THEN [exc |-> "AttributeError", requests |-> 1, value |-> <<>>]
          ELSE [exc |-> "none", requests |-> 1,
                value |-> IF top = <<>> THEN <<"No results found.">>
                          ELSE Join(Blocks(top), <<"\n">>)]

SearchErrorPrefix == "Error performing search: "

\* a handler for requests.RequestException alone: what json() raises gets through
SearchRunNarrowExcept(net) ==
  LET t == SearchTry(net) IN
  IF t.exc \in {"ConnectionError", "Timeout", "HTTPError"}
  THEN [raised |-> FALSE, requests |-> t.requests, failed |-> TRUE,
        result |-> <<SearchErrorPrefix, t.exc>>]
  ELSE [raised |-> t.exc # "none", requests |-> t.requests, failed |-> t.exc # "none",
        result |-> t.value]

\* SerperDevTool.run: except Exception as e: return the error string
SearchRun(net) ==
  LET t == SearchTry(net) IN
  IF t.exc # "none"
  THEN [raised |-> FALSE, requests |-> t.requests, failed |-> TRUE,
        result |-> <<SearchErrorPrefix, t.exc>>]
  ELSE [raised |-> FALSE, requests |-> t.requests, failed |-> FALSE, result |-> t.value]

ToolRun(tool, net) == IF tool = ScrapeTool THEN ScrapeRun(net) ELSE SearchRun(net)

Answers(tool) == IF tool = ScrapeTool THEN ScrapeAnswers ELSE SearchAnswers

\* the answers the tool invocations made during a stream of main() may get
StreamAnswers(tool) ==
  IF tool = ScrapeTool
  THEN ScrapeFailures
         \cup {[kind |-> "response", status |-> 200, parses |-> TRUE,
                page |-> <<[tag |-> "text", ch |-> "a"]>>]}
  ELSE SearchNoResults

\* ------------------------------------------------------------- the inputs

\* what the user may type at the URL prompt
RawInputs ==
  { <<"a", ".", "b">>,
    <<" ", "a", "/", "b", " ">>,
    <<" ", "e", "x", "i", "t">>,
    <<"E", "x", "i", "t">>,
    <<"q", "u", "i", "t">> }

\* the words that end the loop, main.py:98
ExitWords == { <<"e", "x", "i", "t">>, <<"q", "u", "i", "t">> }

\* the ids the framework may give the session
SessionIds == {"s1", "s2"}

NoSession == "none"

TextPart(t) == [isText |-> TRUE, text |-> t]

\* a part that carries a function call or a function response: part.text is None
CallPart == [isText |-> FALSE, text |-> <<>>]

\* the events a stream may yield: event.content is None, or it holds parts
Events ==
  { [hasContent |-> FALSE, parts |-> <<>>],
    [hasContent |-> TRUE, parts |-> <<CallPart, TextPart(<<"a", " ">>)>>],
    [hasContent |-> TRUE,
     parts |-> <<TextPart(<<" ">>), TextPart(Sep), TextPart(<<"c">>)>>],
    [hasContent |-> TRUE,
     parts |-> <<TextPart(<<"b", "-", "-", "-", "B", "L", "O", "G", "_", "S", "E", "P">>)>>],
    [hasContent |-> TRUE,
     parts |-> <<TextPart(<<"A", "R", "A", "T", "O", "R", "-", "-", "-">>),
                 TextPart(<<>>), TextPart(<<"\n">>)>>] }

\* an exception is an instance of Exception, or of BaseException only
\* (KeyboardInterrupt, SystemExit, asyncio.CancelledError)
ExcKinds == {"Exception", "BaseException"}

\* ------------------------------------------------------------------ state

VARIABLES
  pc,              \* where main() is: "start", "prompt", "streaming", "exited", "aborted"
  session,         \* session.id, main.py:88
  sessionsCreated, \* calls of create_session made
  iter,            \* iterations of the while loop started
  rawInput,        \* the text last read at the URL prompt
  output_dir,      \* the directory name of the current iteration, main.py:132
  full_response,   \* main.py:136
  arrived,         \* the events the current stream has yielded, in order
  eventsSeen,      \* the events all the streams have yielded
  openStreams,     \* run_async streams the loop is consuming
  runCalls,        \* calls of runner.run_async made
  callArgs,        \* user_id and session_id of the last run_async call
  dirs,            \* the directories under output/
  files,           \* <<directory, n>> |-> the content of blog_n.md in it
  writes,          \* the n of the files the current iteration has opened for writing
  last,            \* how the last finished iteration ended: <<site, kind>>
  errorsPrinted,   \* "Erro: ..." lines printed, main.py:165
  toolCalls,       \* invocations of a tool's run during the streams
  httpCalls,       \* calls of requests.get / requests.request made by them
  toolIn,          \* the arguments and the network's answer of a tool invocation
  toolOut,         \* what the invocation returned
  tree,            \* the files os.walk yields under the root of each dump script
  report           \* what each dump script has collected and written

mainVars ==
  <<pc, session, sessionsCreated, iter, rawInput, output_dir, full_response, arrived,
    eventsSeen, openStreams, runCalls, callArgs, dirs, files, writes, last, errorsPrinted>>

toolVars == <<toolCalls, httpCalls, toolIn, toolOut>>

scanVars == <<tree, report>>

vars == <<mainVars, toolVars, scanVars>>

NoCall ==
  [agent |-> "none", tool |-> "none",
   net |-> [kind |-> "none", status |-> 0, parses |-> FALSE, page |-> <<>>]]

NoResult == [returned |-> FALSE, raised |-> FALSE, requests |-> 0, failed |-> FALSE,
             result |-> <<>>]

NoOutcome == <<"none", "none">>

NoTree == [back |-> <<>>, front |-> <<>>]

NoBackReport == [done |-> FALSE, collected |-> <<>>, sections |-> <<>>,
                 withContent |-> <<>>, withoutContent |-> <<>>]

NoFrontReport == [done |-> FALSE, files_with_content |-> <<>>, empty_files |-> <<>>,
                  totalWith |-> 0, totalEmpty |-> 0, readErrors |-> <<>>]

NoReport == [back |-> NoBackReport, front |-> NoFrontReport]

\* main() has been called and has made its runner
MainInit ==
  /\ pc = "start"
  /\ session = NoSession
  /\ sessionsCreated = 0
  /\ iter = 0
  /\ rawInput = <<>>
  /\ output_dir = <<>>
  /\ full_response = <<>>
  /\ arrived = <<>>
  /\ eventsSeen = 0
  /\ openStreams = 0
  /\ runCalls = 0
  /\ callArgs = [user_id |-> "none", session_id |-> NoSession]
  /\ dirs = {}
  /\ files = <<>>
  /\ writes = <<>>
  /\ last = NoOutcome
  /\ errorsPrinted = 0

Init ==
  /\ MainInit
  /\ toolCalls = 0
  /\ httpCalls = 0
  /\ toolIn = NoCall
  /\ toolOut = NoResult
  /\ tree = NoTree
  /\ report = NoReport

\* ---------------------------------------------------------- the loop body

\* the try statement around the while loop instead of inside it
ExceptClauseOutsideLoop(kind) == IF kind = "Exception" THEN "exited" ELSE "aborted"

\* except Exception as e: print, and the while loop goes on; anything else
\* leaves main(), main.py:164
ExceptClause(kind) == IF kind = "Exception" THEN "prompt" ELSE "aborted"

Printed(kind) == IF kind = "Exception" THEN 1 ELSE 0

\* for part in event.content.parts: if part.text: full_response += part.text
RECURSIVE AddParts(_, _)
AddParts(full, parts) ==
  IF parts = <<>> THEN full
  ELSE AddParts(IF Head(parts).isText /\ Head(parts).text # <<>>
                THEN full \o Head(parts).text ELSE full,
                Tail(parts))

\* the body with full_response = part.text in place of +=
AccumulateLastPart(full, event) ==
  IF event.hasContent /\ event.parts # <<>>
  THEN AddParts(<<>>, <<event.parts[Len(event.parts)]>>)
  ELSE full

\* the body of the async for, main.py:143
Accumulate(full, event) ==
  IF event.hasContent /\ event.parts # <<>> THEN AddParts(full, event.parts) ELSE full

\* the file named after the zero-based position itself
FileIndexZeroBased(i) == i

\* f"blog_{i+1}.md" for the zero-based position i
FileIndex(i) == i + 1

\* a write that clears what was saved before it
WriteFileAlone(fs, key, text) == [k \in {key} |-> text]

\* open(filename, "w") and f.write(text): the file is made, or its content replaced
WriteFile(fs, key, text) ==
  [k \in DOMAIN fs \cup {key} |-> IF k = key THEN text ELSE fs[k]]

\* the for loop of main.py:153 from position i on; the write of position failAt
\* raises (failAt = -1: none does), in open() or after open() has truncated the file
RECURSIVE SaveBlogs(_, _, _, _, _, _, _)
SaveBlogs(fs, done, dir, blogs, i, failAt, failIn) ==
  IF i >= Len(blogs) THEN [files |-> fs, writes |-> done, raised |-> FALSE]
  ELSE IF Strip(blogs[i + 1]) = <<>>
  THEN SaveBlogs(fs, done, dir, blogs, i + 1, failAt, failIn)
  ELSE IF i = failAt /\ failIn = "open"
  THEN [files |-> fs, writes |-> done, raised |-> TRUE]
  ELSE IF i = failAt
  THEN [files |-> WriteFile(fs, <<dir, FileIndex(i)>>, <<>>),
        writes |-> Append(done, FileIndex(i)), raised |-> TRUE]
  ELSE SaveBlogs(WriteFile(fs, <<dir, FileIndex(i)>>, Strip(blogs[i + 1])),
                 Append(done, FileIndex(i)), dir, blogs, i + 1, failAt, failIn)

\* if full_response: blogs = full_response.split(...); the for loop
SaveResponse(fs, dir, full, failAt, failIn) ==
  IF full = <<>> THEN [files |-> fs, writes |-> <<>>, raised |-> FALSE]
  ELSE SaveBlogs(fs, <<>>, dir, Split(full, Sep), 0, failAt, failIn)

\* runner.session_service.create_session, before the loop
CreateSession ==
  /\ pc = "start"
  /\ \E id \in SessionIds :
       /\ session' = id
       /\ sessionsCreated' = sessionsCreated + 1
       /\ pc' = "prompt"
  /\ UNCHANGED <<iter, rawInput, output_dir, full_response, arrived, eventsSeen, openStreams,
                 runCalls, callArgs, dirs, files, writes, last, errorsPrinted, toolVars, scanVars>>

\* an input() of the iteration raises (EOFError, KeyboardInterrupt): main.py:97-114
InputRaises ==
  /\ pc = "prompt"
  /\ iter < MaxRuns
  /\ \E kind \in ExcKinds :
       /\ pc' = ExceptClause(kind)
       /\ errorsPrinted' = errorsPrinted + Printed(kind)
       /\ last' = <<"input", kind>>
  /\ iter' = iter + 1
  /\ UNCHANGED <<session, sessionsCreated, rawInput, output_dir, full_response, arrived, eventsSeen,
                 openStreams, runCalls, callArgs, dirs, files, writes, toolVars, scanVars>>

\* the comparison made on the stripped input
ReadExitStripped ==
  /\ pc = "prompt"
  /\ \E raw \in RawInputs :
       /\ Lower(Strip(raw)) \in ExitWords
       /\ rawInput' = raw
  /\ pc' = "exited"
  /\ UNCHANGED <<session, sessionsCreated, iter, output_dir, full_response, arrived,
                 eventsSeen, openStreams, runCalls, callArgs, dirs, files, writes, last,
                 errorsPrinted, toolVars, scanVars>>

\* the user types exit or quit: break, main.py:98
ReadExit ==
  /\ pc = "prompt"
  /\ \E raw \in RawInputs :
       /\ Lower(raw) \in ExitWords
       /\ rawInput' = raw
  /\ pc' = "exited"
  /\ UNCHANGED <<session, sessionsCreated, iter, output_dir, full_response, arrived, eventsSeen,
                 openStreams, runCalls, callArgs, dirs, files, writes, last,
                 errorsPrinted, toolVars, scanVars>>

\* the name made of the input as typed, not stripped
DirNameUnstripped(raw) == Sanitize(raw)

\* the name of the directory of the input read, main.py:101 and 131
DirName(raw) == Sanitize(Strip(raw))

\* os.makedirs(output_dir, exist_ok=True) raises (OSError): main.py:133
MakedirsRaises ==
  /\ pc = "prompt"
  /\ iter < MaxRuns
  /\ \E raw \in RawInputs :
       /\ Lower(raw) \notin ExitWords
       /\ rawInput' = raw
       /\ output_dir' = DirName(raw)
  /\ pc' = ExceptClause("Exception")
  /\ errorsPrinted' = errorsPrinted + 1
  /\ last' = <<"makedirs", "Exception">>
  /\ iter' = iter + 1
  /\ UNCHANGED <<session, sessionsCreated, full_response, arrived, eventsSeen, openStreams,
                 runCalls, callArgs, dirs, files, writes, toolVars, scanVars>>

\* a session created for each request
StartRunNewSession ==
  /\ pc = "prompt"
  /\ iter < MaxRuns
  /\ \E raw \in RawInputs :
       /\ Lower(raw) \notin ExitWords
       /\ rawInput' = raw
       /\ output_dir' = Sanitize(Strip(raw))
       /\ dirs' = dirs \cup {Sanitize(Strip(raw))}
  /\ \E id \in SessionIds :
       /\ session' = id
       /\ callArgs' = [user_id |-> "user", session_id |-> id]
  /\ sessionsCreated' = sessionsCreated + 1
  /\ full_response' = <<>>
  /\ arrived' = <<>>
  /\ writes' = <<>>
  /\ openStreams' = openStreams + 1
  /\ runCalls' = runCalls + 1
  /\ iter' = iter + 1
  /\ pc' = "streaming"
  /\ UNCHANGED <<eventsSeen, files, last, errorsPrinted, toolVars, scanVars>>

\* the stream handed to a task of its own, the loop going back to the prompt
StartRunDetached ==
  /\ pc = "prompt"
  /\ iter < MaxRuns
  /\ \E raw \in RawInputs :
       /\ Lower(raw) \notin ExitWords
       /\ rawInput' = raw
       /\ output_dir' = DirName(raw)
       /\ dirs' = dirs \cup {DirName(raw)}
  /\ openStreams' = openStreams + 1
  /\ runCalls' = runCalls + 1
  /\ callArgs' = [user_id |-> "user", session_id |-> session]
  /\ iter' = iter + 1
  /\ UNCHANGED <<pc, session, sessionsCreated, full_response, arrived, eventsSeen,
                 writes, files, last, errorsPrinted, toolVars, scanVars>>

\* a URL is read, its directory made and the stream opened: main.py:97-142. The
\* competitor and blog URLs asked for in between go into the prompt only, whose
\* text the hosted model alone reads; an input() of theirs that raises is InputRaises
StartRun ==
  /\ pc = "prompt"
  /\ iter < MaxRuns
  /\ \E raw \in RawInputs :
       /\ Lower(raw) \notin ExitWords
       /\ rawInput' = raw
       /\ output_dir' = DirName(raw)
       /\ dirs' = dirs \cup {DirName(raw)}
  /\ full_response' = <<>>
  /\ arrived' = <<>>
  /\ writes' = <<>>
  /\ openStreams' = openStreams + 1
  /\ runCalls' = runCalls + 1
  /\ callArgs' = [user_id |-> "user", session_id |-> session]
  /\ iter' = iter + 1
  /\ pc' = "streaming"
  /\ UNCHANGED <<session, sessionsCreated, eventsSeen, files, last, errorsPrinted,
                 toolVars, scanVars>>

\* the stream yields an event and the loop body runs: main.py:143-147
StreamEvent ==
  /\ pc = "streaming"
  /\ eventsSeen < MaxEvents
  /\ \E ev \in Events :
       /\ arrived' = Append(arrived, ev)
       /\ full_response' = Accumulate(full_response, ev)
  /\ eventsSeen' = eventsSeen + 1
  /\ UNCHANGED <<pc, session, sessionsCreated, iter, rawInput, output_dir, openStreams,
                 runCalls, callArgs, dirs, files, writes, last, errorsPrinted, toolVars, scanVars>>

\* a handler that saves what had been accumulated when the stream raised
StreamRaisesSaving ==
  /\ pc = "streaming"
  /\ \E kind \in ExcKinds :
       /\ pc' = ExceptClause(kind)
       /\ errorsPrinted' = errorsPrinted + Printed(kind)
       /\ last' = <<"stream", kind>>
  /\ LET r == SaveResponse(files, output_dir, full_response, -1, "open") IN
       /\ files' = r.files
       /\ writes' = r.writes
  /\ openStreams' = openStreams - 1
  /\ UNCHANGED <<session, sessionsCreated, iter, rawInput, output_dir, full_response,
                 arrived, eventsSeen, runCalls, callArgs, dirs, toolVars, scanVars>>

\* the stream, or the loop body, raises: control leaves the async for
StreamRaises ==
  /\ pc = "streaming"
  /\ \E kind \in ExcKinds :
       /\ pc' = ExceptClause(kind)
       /\ errorsPrinted' = errorsPrinted + Printed(kind)
       /\ last' = <<"stream", kind>>
  /\ openStreams' = openStreams - 1
  /\ UNCHANGED <<session, sessionsCreated, iter, rawInput, output_dir, full_response,
                 arrived, eventsSeen, runCalls, callArgs, dirs, files, writes, toolVars, scanVars>>

\* the stream ends and the response is split and saved: main.py:148-162
FinishRun ==
  /\ pc = "streaming"
  /\ LET r == SaveResponse(files, output_dir, full_response, -1, "open") IN
       /\ files' = r.files
       /\ writes' = r.writes
       /\ last' = <<IF full_response = <<>> THEN "empty" ELSE "saved", "none">>
  /\ openStreams' = openStreams - 1
  /\ pc' = "prompt"
  /\ UNCHANGED <<session, sessionsCreated, iter, rawInput, output_dir, full_response,
                 arrived, eventsSeen, runCalls, callArgs, dirs, errorsPrinted, toolVars, scanVars>>

\* the stream ends and a write of a blog file raises (OSError): main.py:158-159
WriteRaises ==
  /\ pc = "streaming"
  /\ \E failAt \in 0..(Len(Split(full_response, Sep)) - 1), failIn \in {"open", "write"} :
       LET r == SaveResponse(files, output_dir, full_response, failAt, failIn) IN
         /\ r.raised
         /\ files' = r.files
         /\ writes' = r.writes
  /\ last' = <<"write", "Exception">>
  /\ errorsPrinted' = errorsPrinted + 1
  /\ openStreams' = openStreams - 1
  /\ pc' = ExceptClause("Exception")
  /\ UNCHANGED <<session, sessionsCreated, iter, rawInput, output_dir, full_response,
                 arrived, eventsSeen, runCalls, callArgs, dirs, toolVars, scanVars>>

\* the event of a function call: its only part carries no text
CallEvent == [hasContent |-> TRUE, parts |-> <<CallPart>>]

\* an agent invokes one of its tools, whose run makes its request and returns; the
\* stream yields the event of the call. Were run to raise, the stream would raise
StreamToolCall ==
  /\ pc = "streaming"
  /\ eventsSeen < MaxEvents
  /\ \E agent \in Range(tools) :
       \E tool \in Range(agent.tools) :
         \E net \in StreamAnswers(tool) :
           LET r == ToolRun(tool, net) IN
             /\ toolCalls' = toolCalls + 1
             /\ httpCalls' = httpCalls + r.requests
             /\ IF r.raised
                THEN /\ pc' = ExceptClause("Exception")
                     /\ errorsPrinted' = errorsPrinted + 1
                     /\ last' = <<"stream", "Exception">>
                     /\ openStreams' = openStreams - 1
                     /\ UNCHANGED <<arrived, full_response, eventsSeen>>
                ELSE /\ arrived' = Append(arrived, CallEvent)
                     /\ full_response' = Accumulate(full_response, CallEvent)
                     /\ eventsSeen' = eventsSeen + 1
                     /\ UNCHANGED <<pc, errorsPrinted, last, openStreams>>
  /\ UNCHANGED <<session, sessionsCreated, iter, rawInput, output_dir, runCalls,
                 callArgs, dirs, files, writes, toolIn, toolOut, scanVars>>

Next ==
  \/ CreateSession
  \/ InputRaises
  \/ ReadExit
  \/ MakedirsRaises
  \/ StartRun
  \/ StreamEvent
  \/ StreamToolCall
  \/ StreamRaises
  \/ FinishRun
  \/ WriteRaises

Spec == Init /\ [][Next]_vars

\* ------------------------------------------- one invocation of an HTTP tool

\* an agent of the router has invoked one of its tools, and the network has its answer
ToolInit ==
  /\ MainInit
  /\ toolCalls = 0
  /\ httpCalls = 0
  /\ toolOut = NoResult
  /\ tree = NoTree
  /\ report = NoReport
  /\ \E agent \in Range(tools) :
       \E tool \in Range(agent.tools) :
         \E net \in Answers(tool) :
           toolIn = [agent |-> agent.name, tool |-> tool, net |-> net]

Returned(r) == [returned |-> TRUE, raised |-> r.raised, requests |-> r.requests,
                failed |-> r.failed, result |-> r.result]

\* ScrapeWebsiteTool.run(url)
Scrape ==
  /\ toolIn.tool = ScrapeTool
  /\ ~toolOut.returned
  /\ LET r == ScrapeRun(toolIn.net) IN
       /\ toolOut' = Returned(r)
       /\ httpCalls' = httpCalls + r.requests
  /\ toolCalls' = toolCalls + 1
  /\ UNCHANGED <<mainVars, toolIn, scanVars>>

\* SerperDevTool.run(query)
Search ==
  /\ toolIn.tool = SearchTool
  /\ ~toolOut.returned
  /\ LET r == SearchRun(toolIn.net) IN
       /\ toolOut' = Returned(r)
       /\ httpCalls' = httpCalls + r.requests
  /\ toolCalls' = toolCalls + 1
  /\ UNCHANGED <<mainVars, toolIn, scanVars>>

ToolNext ==
  \/ Scrape
  \/ Search

ToolSpec == ToolInit /\ [][ToolNext]_vars

\* ------------------------------- the repository dumps: scan_back.py, build_docs.py

\* str comparison is by code point: the characters of the paths in that order
CharOrder == <<".", "/">> \o UpperLetters \o <<"_">> \o LowerLetters

Ord(c) == CHOOSE i \in 1..Len(CharOrder) : CharOrder[i] = c

\* a < b for two str
RECURSIVE Less(_, _)
Less(a, b) ==
  IF b = <<>> THEN FALSE
  ELSE IF a = <<>> THEN TRUE
  ELSE IF Head(a) = Head(b) THEN Less(Tail(a), Tail(b))
  ELSE Ord(Head(a)) < Ord(Head(b))

\* str.rfind("."): the highest index at which a dot occurs, 0 if none
RFindDot(name) ==
  IF \E i \in 1..Len(name) : name[i] = "."
  THEN CHOOSE i \in 1..Len(name) :
         name[i] = "." /\ \A j \in (i + 1)..Len(name) : name[j] # "."
  ELSE 0

\* os.path.splitext(filename)[1] for a name without separator: from the last
\* dot on, unless only dots come before it
SplitExt(name) ==
  LET dot == RFindDot(name) IN
  IF dot > 0 /\ \E i \in 1..(dot - 1) : name[i] # "."
  THEN SubSeq(name, dot, Len(name))
  ELSE <<>>

\* pathlib's Path(filename).suffix: from the last dot on, unless the dot is
\* the first or the last character
Suffix(name) ==
  LET dot == RFindDot(name) IN
  IF dot > 1 /\ dot < Len(name) THEN SubSeq(name, dot, Len(name)) ELSE <<>>

OUTPUT_FILE == <<"g", "o", "_", "r", "e", "p", "o", "_", "d", "u", "m", "p", ".", "m", "d">>

IGNORE_PATTERNS ==
  << <<".", "g", "i", "t">>,
     <<".", "i", "d", "e", "a">>,
     <<".", "v", "s", "c", "o", "d", "e">>,
     <<"_", "_", "p", "y", "c", "a", "c", "h", "e", "_", "_">>,
     <<"n", "o", "d", "e", "_", "m", "o", "d", "u", "l", "e", "s">>,
     <<"v", "e", "n", "d", "o", "r">>,
     OUTPUT_FILE >>

Dockerfile == <<"D", "o", "c", "k", "e", "r", "f", "i", "l", "e">>

ALLOWED_EXTENSIONS ==
  << <<".", "g", "o">>,
     <<".", "m", "o", "d">>,
     <<".", "s", "u", "m">>,
     <<".", "e", "n", "v">>,
     <<".", "y", "m", "l">>,
     <<".", "y", "a", "m", "l">>,
     <<".", "s", "q", "l">>,
     Dockerfile,
     <<".", "e", "n", "v", ".", "e", "x", "a", "m", "p", "l", "e">> >>

should_ignore(path) ==
  \E i \in 1..Len(IGNORE_PATTERNS) : Find(path, IGNORE_PATTERNS[i], 1) # 0

has_allowed_extension(filename) ==
  \/ filename = Dockerfile
  \/ SplitExt(filename) \in Range(ALLOWED_EXTENSIONS)

\* ROOT_DIR, and the dirpath os.walk gives for the directory of a file
ROOT_DIR == <<".">>

DirPath(f) == Join(<<ROOT_DIR>> \o f.dir, <<"/">>)

\* os.path.join(dirpath, filename)
FullPath(f) == DirPath(f) \o <<"/">> \o f.name

\* the paths collect_files appends, in the order of the walk
RECURSIVE Appended(_)
Appended(walk) ==
  IF walk = <<>> THEN <<>>
  ELSE LET f == Head(walk) IN
       IF \/ should_ignore(DirPath(f))
          \/ should_ignore(FullPath(f))
          \/ ~has_allowed_extension(f.name)
       THEN Appended(Tail(walk))
       ELSE <<FullPath(f)>> \o Appended(Tail(walk))

\* sorted(file_paths, key=lambda x: x.lower()): stable, equal keys keep their order
RECURSIVE Sorted(_)
Sorted(paths) ==
  IF paths = <<>> THEN <<>>
  ELSE LET rest == Sorted(SubSeq(paths, 1, Len(paths) - 1))
           x == paths[Len(paths)]
           before == Cardinality({i \in 1..Len(rest) : ~Less(Lower(x), Lower(rest[i]))})
       IN SubSeq(rest, 1, before) \o <<x>> \o SubSeq(rest, before + 1, Len(rest))

collect_files(walk) == Sorted(Appended(walk))

\* open(path) raises OSError for a file that cannot be opened
Opens(f) == f.readable

\* read_file(path): with errors="ignore" the bytes that do not decode are dropped
read_file(f) == IF Opens(f) THEN Strip(f.text) ELSE <<>>

\* the file of the walk that has the path
FileAt(walk, path) == walk[CHOOSE i \in 1..Len(walk) : FullPath(walk[i]) = path]

\* main() of scan_back.py: the (path, content) pairs in the order of files
FileData(walk, paths) ==
  [i \in 1..Len(paths) |->
     [path |-> paths[i], content |-> read_file(FileAt(walk, paths[i]))]]

PathsOf(data) == [i \in 1..Len(data) |-> data[i].path]

\* generate_markdown(file_data): the paths of the content sections and of the
\* two lists of the final summary, in the order written
generate_markdown(file_data) ==
  [sections |-> PathsOf(SelectSeq(file_data, LAMBDA d : d.content # <<>>)),
   withContent |-> PathsOf(SelectSeq(file_data, LAMBDA d : d.content # <<>>)),
   withoutContent |-> PathsOf(SelectSeq(file_data, LAMBDA d : d.content = <<>>))]

\* the sets of scan_repository
extensions ==
  { <<".", "t", "s", "x">>, <<".", "t", "s">>, <<".", "j", "s", "x">>, <<".", "j", "s">>,
    <<".", "c", "s", "s">>, <<".", "j", "s", "o", "n">>, <<".", "m", "d">>, <<".", "m", "j", "s">> }

ignore_patterns ==
  { <<"n", "o", "d", "e", "_", "m", "o", "d", "u", "l", "e", "s">>, <<".", "n", "e", "x", "t">>, <<".", "g", "i", "t">>, <<"d", "i", "s", "t">>, <<"b", "u", "i", "l", "d">>,
    <<".", "e", "n", "v", ".", "l", "o", "c", "a", "l">>, <<"p", "a", "c", "k", "a", "g", "e", "-", "l", "o", "c", "k", ".", "j", "s", "o", "n">>, <<".", "g", "i", "t", "i", "g", "n", "o", "r", "e">>, <<"R", "E", "A", "D", "M", "E", ".", "m", "d">>,
    <<"p", "a", "c", "k", "a", "g", "e", ".", "j", "s", "o", "n">>, <<"t", "s", "c", "o", "n", "f", "i", "g", ".", "j", "s", "o", "n">>, <<"p", "o", "s", "t", "c", "s", "s", ".", "c", "o", "n", "f", "i", "g", ".", "m", "j", "s">>,
    <<"e", "s", "l", "i", "n", "t", ".", "c", "o", "n", "f", "i", "g", ".", "m", "j", "s">>, <<"t", "a", "i", "l", "w", "i", "n", "d", ".", "c", "o", "n", "f", "i", "g", ".", "t", "s">>, <<"b", "r", "a", "z", "i", "l", "-", "l", "o", "c", "a", "t", "i", "o", "n", "s", ".", "t", "s">> }

\* the walk does not descend into a directory whose name is ignored
Pruned(f) == \E i \in 1..Len(f.dir) : f.dir[i] \in ignore_patterns

\* the file passes the filters of the first pass and is opened
Matches(f) == ~Pruned(f) /\ f.name \notin ignore_patterns /\ Suffix(f.name) \in extensions

\* os.path.relpath(full_path, root_path)
RelPath(f) == Join(f.dir \o <<f.name>>, <<"/">>)

\* open(full_path, 'r', encoding='utf-8') and f.read(): OSError or UnicodeDecodeError
Reads(f) == f.readable /\ f.decodes

NoLists == [files_with_content |-> <<>>, empty_files |-> <<>>, errors |-> <<>>]

\* the first pass with the except branch counting the file as empty
RECURSIVE FirstPassCountingFailures(_)
FirstPassCountingFailures(walk) ==
  IF walk = <<>> THEN NoLists
  ELSE LET f == Head(walk)
           rest == FirstPassCountingFailures(Tail(walk))
       IN IF ~Matches(f) THEN rest
          ELSE IF ~Reads(f)
               THEN [rest EXCEPT !.errors = <<RelPath(f)>> \o rest.errors,
                                 !.empty_files = <<RelPath(f)>> \o rest.empty_files]
          ELSE IF Strip(f.text) # <<>>
               THEN [rest EXCEPT
                       !.files_with_content = <<RelPath(f)>> \o rest.files_with_content]
          ELSE [rest EXCEPT !.empty_files = <<RelPath(f)>> \o rest.empty_files]

\* the first pass of scan_repository: the two lists, and the read errors printed
RECURSIVE FirstPass(_)
FirstPass(walk) ==
  IF walk = <<>> THEN NoLists
  ELSE LET f == Head(walk)
           rest == FirstPass(Tail(walk))
       IN IF ~Matches(f) THEN rest
          ELSE IF ~Reads(f)
               THEN [rest EXCEPT !.errors = <<RelPath(f)>> \o rest.errors]
          ELSE IF Strip(f.text) # <<>>
               THEN [rest EXCEPT
                       !.files_with_content = <<RelPath(f)>> \o rest.files_with_content]
          ELSE [rest EXCEPT !.empty_files = <<RelPath(f)>> \o rest.empty_files]

\* the files a walk yields
MaxFiles == 2

File(dir, name, text, readable, decodes) ==
  [dir |-> dir, name |-> name, text |-> text, readable |-> readable, decodes |-> decodes]

\* the files that may lie under the root of the Go repository
BackCatalog ==
  { File(<<>>, Dockerfile, <<"x">>, TRUE, TRUE),
    File(<<>>, <<".", "e", "n", "v">>, <<"k">>, TRUE, TRUE),
    File(<<>>, <<".", "e", "n", "v", ".", "e", "x", "a", "m", "p", "l", "e">>, <<"k">>, TRUE, TRUE),
    File(<<<<"b">>>>, <<"a", "p", "p", ".", "e", "n", "v">>, <<" ", "\n">>, TRUE, TRUE),
    File(<<<<"v", "e", "n", "d", "o", "r">>>>, <<"m", ".", "g", "o">>, <<"x">>, TRUE, TRUE),
    File(<<<<"v", "e", "n", "d", "o", "r", "s">>>>, <<"q", ".", "g", "o">>, <<"x">>, TRUE, TRUE),
    File(<<<<"a">>>>, <<"B", ".", "s", "q", "l">>, <<"x">>, FALSE, TRUE),
    File(<<<<"A">>>>, <<"c", ".", "g", "o">>, <<"x", " ">>, TRUE, FALSE),
    File(<<>>, <<"g", "o", ".", "m", "o", "d">>, <<>>, TRUE, TRUE),
    File(<<>>, <<"n", ".", "t", "s">>, <<"x">>, TRUE, TRUE) }

\* the files that may lie under the root of the frontend
FrontCatalog ==
  { File(<<>>, <<"n", ".", "t", "s">>, <<" ", "x">>, TRUE, TRUE),
    File(<<<<"d", "i", "s", "t">>>>, <<"y", ".", "j", "s">>, <<"x">>, TRUE, TRUE),
    File(<<>>, <<"R", "E", "A", "D", "M", "E", ".", "m", "d">>, <<"x">>, TRUE, TRUE),
    File(<<<<"a">>>>, <<"z", ".", "c", "s", "s">>, <<"x">>, TRUE, FALSE),
    File(<<<<"a">>>>, <<"u", ".", "m", "j", "s">>, <<"x">>, FALSE, TRUE),
    File(<<>>, <<"e", ".", "j", "s", "o", "n">>, <<"\n">>, TRUE, TRUE),
    File(<<>>, <<"g", "o", ".", "m", "o", "d">>, <<"x">>, TRUE, TRUE) }

\* os.walk is top-down and yields the files of one directory together: the
\* files of the root first, no file twice
IsWalk(w) ==
  /\ \A i, j \in 1..Len(w) : i # j => w[i] # w[j]
  /\ \A i, j \in 1..Len(w) : (i < j /\ w[j].dir = <<>>) => w[i].dir = <<>>
  /\ \A i, j, k \in 1..Len(w) :
       (i < j /\ j < k /\ w[i].dir = w[k].dir) => w[j].dir = w[i].dir

\* the two scripts are about to be run, each on its tree
ScanInit ==
  /\ MainInit
  /\ toolCalls = 0
  /\ httpCalls = 0
  /\ toolIn = NoCall
  /\ toolOut = NoResult
  /\ report = NoReport
  /\ \E back \in SeqsUpTo(BackCatalog, MaxFiles) :
       \E front \in SeqsUpTo(FrontCatalog, MaxFiles) :
         /\ IsWalk(back)
         /\ IsWalk(front)
         /\ tree = [back |-> back, front |-> front]

\* main() of scan_back.py
ScanBack ==
  /\ ~report.back.done
  /\ LET collected == collect_files(tree.back)
         md == generate_markdown(FileData(tree.back, collected))
     IN report' = [report EXCEPT !.back =
                     [done |-> TRUE, collected |-> collected, sections |-> md.sections,
                      withContent |-> md.withContent,
                      withoutContent |-> md.withoutContent]]
  /\ UNCHANGED <<mainVars, toolVars, tree>>

\* scan_repository(root) of build_docs.py
BuildDocs ==
  /\ ~report.front.done
  /\ LET pass == FirstPass(tree.front)
     IN report' = [report EXCEPT !.front =
                     [done |-> TRUE, files_with_content |-> pass.files_with_content,
                      empty_files |-> pass.empty_files,
                      totalWith |-> Len(pass.files_with_content),
                      totalEmpty |-> Len(pass.empty_files),
                      readErrors |-> pass.errors]]
  /\ UNCHANGED <<mainVars, toolVars, tree>>

ScanNext ==
  \/ ScanBack
  \/ BuildDocs

ScanSpec == ScanInit /\ [][ScanNext]_vars

\* ------------------------------------------------------------- the claims

\* an iteration has just ended by saving a response that was not empty
JustSaved == pc \in {"prompt", "exited"} /\ last = <<"saved", "none">>

\* str.count(sep): the occurrences met scanning left to right, none overlapping another
RECURSIVE Count(_, _)
Count(s, sep) ==
  LET j == Find(s, sep, 1) IN
  IF j = 0 THEN 0 ELSE 1 + Count(SubSeq(s, j + Len(sep), Len(s)), sep)

\* the one-based positions of the segments that are not blank
NonBlank(segs) == {n \in 1..Len(segs) : Strip(segs[n]) # <<>>}

\* C1: when an iteration has saved a non-empty response, the files it wrote are
\* exactly blog_n.md for the one-based positions n of the non-blank segments of the
\* response split on the separator, in order, each file holds its segment stripped,
\* no other position was written, and a response with k separators has k+1
\* segments, which joined by the separator give the response back.
C1_FilesPerSegment ==
  JustSaved =>
    LET segs == Split(full_response, Sep) IN
      /\ Len(segs) = Count(full_response, Sep) + 1
      /\ Join(segs, Sep) = full_response
      /\ Len(writes) = Cardinality(NonBlank(segs))
      /\ {writes[k] : k \in 1..Len(writes)} = NonBlank(segs)
      /\ \A k \in 1..Len(writes) - 1 : writes[k] < writes[k + 1]
      /\ \A n \in NonBlank(segs) :
           /\ <<output_dir, n>> \in DOMAIN files
           /\ files[<<output_dir, n>>] = Strip(segs[n])

\* a response with a blank segment first: only blog_2.md is written
C1_Witness ==
  /\ JustSaved
  /\ Len(Split(full_response, Sep)) = 2
  /\ writes = <<2>>
  /\ files[<<output_dir, 2>>] = <<"c">>

\* the text of the parts of an event, in their order
RECURSIVE PartsText(_)
PartsText(parts) ==
  IF parts = <<>> THEN <<>>
  ELSE (IF Head(parts).isText THEN Head(parts).text ELSE <<>>) \o PartsText(Tail(parts))

\* the text of the events of a stream, in their order
RECURSIVE EventsText(_)
EventsText(events) ==
  IF events = <<>> THEN <<>>
  ELSE (IF Head(events).hasContent THEN PartsText(Head(events).parts) ELSE <<>>)
         \o EventsText(Tail(events))

\* C6: the accumulated response is the text of every part of every event the
\* current stream has yielded, in arrival order, events without content and parts
\* without text adding nothing; it holds nothing of an earlier stream, and the
\* files an iteration saves are cut from that text.
C6_ConcatenationInOrder ==
  /\ full_response = EventsText(arrived)
  /\ JustSaved =>
       \A k \in 1..Len(writes) :
         files[<<output_dir, writes[k]>>] =
           Strip(Split(EventsText(arrived), Sep)[writes[k]])

\* a stream that yields an event without content and then an event whose first
\* part has no text and whose second has: the file holds the text of that part
C6_Witness ==
  /\ JustSaved
  /\ Len(arrived) = 2
  /\ ~arrived[1].hasContent
  /\ ~arrived[2].parts[1].isText
  /\ full_response = <<"a", " ">>
  /\ files[<<output_dir, 1>>] = <<"a">>

\* a step in which a statement of the loop body raises
RaisedStep ==
  /\ pc \in {"prompt", "streaming"}
  /\ pc' # "streaming"
  /\ last'[2] # "none"
  /\ iter' # iter \/ pc = "streaming"

\* C2 as stated: after any exception raised inside an iteration the loop is back
\* at the URL prompt with the same session.
C2_AnyExceptionReturnsToPrompt ==
  [][RaisedStep => (pc' = "prompt" /\ session' = session)]_vars

\* C2, amended: after an exception that is an instance of Exception, raised by
\* an input(), by makedirs, by the stream or by a write, the error is printed and
\* the loop is back at the URL prompt; the session is the one created at the start,
\* and no other has been created.
C2_ExceptionReturnsToPrompt ==
  [][(RaisedStep /\ last'[2] = "Exception") =>
       /\ pc' = "prompt"
       /\ errorsPrinted' = errorsPrinted + 1
       /\ session' = session
       /\ session' \in SessionIds
       /\ sessionsCreated' = 1]_vars

\* a request that saved its files after an earlier iteration had raised
C2_Witness ==
  /\ JustSaved
  /\ errorsPrinted = 1
  /\ iter = 2
  /\ writes # <<>>

\* a step in which the stream of the current request fails
StreamFails == pc = "streaming" /\ pc' # "streaming" /\ last'[1] = "stream"

\* C4: no invocation of a tool makes more than one HTTP request, no iteration
\* calls run_async more than once, and the step in which a stream fails sends no
\* request again and writes no file, whatever had been accumulated.
C4_NoRetryNoPartialSave ==
  [][/\ httpCalls' - httpCalls <= toolCalls' - toolCalls
     /\ runCalls' <= iter'
     /\ StreamFails => (files' = files /\ writes' = <<>> /\ runCalls' = runCalls)]_vars

\* a stream that failed after text had arrived and a tool had failed: nothing saved
C4_Witness ==
  /\ pc = "prompt"
  /\ last = <<"stream", "Exception">>
  /\ full_response # <<>>
  /\ toolCalls = 1
  /\ httpCalls = 1
  /\ runCalls = 1
  /\ files = <<>>

\* C5: at most one stream is being consumed at any point, and none is while the
\* program is at the URL prompt or has left the loop: the stream of a request has
\* ended or raised, and its files are written, before the next prompt is read.
C5_OneRequestAtATime ==
  /\ openStreams <= 1
  /\ openStreams = (IF pc = "streaming" THEN 1 ELSE 0)
  /\ runCalls <= iter
  /\ pc = "streaming" => writes = <<>>

\* the stream of a second request, open after the first request saved its files
C5_Witness ==
  /\ pc = "streaming"
  /\ iter = 2
  /\ runCalls = 2
  /\ openStreams = 1
  /\ last = <<"saved", "none">>
  /\ files # <<>>

\* the name the claim gives the directory of an input
ExpectedName(raw) ==
  LET u == Strip(raw) IN [i \in 1..Len(u) |-> IF u[i] \in Alnum THEN u[i] ELSE "_"]

\* C7: while the model is being called, and after the run has ended in any way,
\* the directory named after the stripped input, its characters outside
\* [a-zA-Z0-9] replaced by '_', exists; making it again is no error.
C7_DirectoryBeforeModel ==
  /\ pc = "streaming" => (output_dir = ExpectedName(rawInput) /\ output_dir \in dirs)
  /\ last[1] \in {"saved", "empty", "stream", "write"} => output_dir \in dirs
  /\ \A key \in DOMAIN files : key[1] \in dirs

\* a second run of the same directory, from an input that had to be stripped,
\* after a first run that failed
C7_Witness ==
  /\ pc = "streaming"
  /\ iter = 2
  /\ last = <<"stream", "Exception">>
  /\ rawInput = <<" ", "a", "/", "b", " ">>
  /\ dirs = {<<"a", "_", "b">>}

\* no element of a sequence occurs twice in it
NoDuplicate(seq) == \A i, j \in 1..Len(seq) : seq[i] = seq[j] => i = j

\* C9: an iteration opens no file name twice, and no step removes a file.
C9_WrittenOnceNeverRemoved ==
  [][NoDuplicate(writes') /\ DOMAIN files \subseteq DOMAIN files']_vars

\* a run that wrote two files into a directory
C9_Witness ==
  /\ JustSaved
  /\ writes = <<1, 2>>
  /\ DOMAIN files = {<<output_dir, 1>>, <<output_dir, 2>>}

\* the body of the answer cannot be parsed: as HTML by the scraper, as JSON by the search
Unparsable(call) ==
  IF call.tool = ScrapeTool THEN ~call.net.parses ELSE call.net.json = "invalid"

ErrorPrefix(tool) == IF tool = ScrapeTool THEN ScrapeErrorPrefix ELSE SearchErrorPrefix

\* the invocation returned a string that starts with the error prefix of its tool
ReturnedError ==
  /\ ~toolOut.raised
  /\ Len(toolOut.result) >= 1
  /\ toolOut.result[1] = ErrorPrefix(toolIn.tool)

\* C3 as stated: a connection error, a timeout, a status that is not 2xx or an
\* unparsable body makes run return the prefixed error string and raise nothing.
C3_Non2xxReturnsErrorString ==
  (/\ toolOut.returned
   /\ \/ toolIn.net.kind # "response"
      \/ ~(200 <= toolIn.net.status /\ toolIn.net.status < 300)
      \/ Unparsable(toolIn))
    => ReturnedError

\* C3, amended: a connection error, a timeout, a 4xx or 5xx status or an
\* unparsable body makes run return the prefixed error string and raise nothing,
\* and no invocation at all raises to its caller.
C3_FailureReturnsErrorString ==
  toolOut.returned =>
    /\ ~toolOut.raised
    /\ (\/ toolIn.net.kind # "response"
        \/ (400 <= toolIn.net.status /\ toolIn.net.status < 600)
        \/ Unparsable(toolIn))
         => (ReturnedError /\ toolOut.failed)

\* the search got a 200 whose body is no JSON: the error string comes back
C3_Witness ==
  /\ toolOut.returned
  /\ toolIn.tool = SearchTool
  /\ toolIn.net.kind = "response"
  /\ toolIn.net.status = 200
  /\ toolIn.net.json = "invalid"
  /\ toolOut.result = <<SearchErrorPrefix, "JSONDecodeError">>

\* the scraper returned the text of a page
Scraped == toolOut.returned /\ toolIn.tool = ScrapeTool /\ ~toolOut.failed

\* C8: a successful scrape returns the first MaxScrapeChars characters of the
\* cleaned text of the page: no longer than that, nothing of a script or style
\* element, no two spaces in a row, no line that is empty (a line break may be
\* the last character kept by the cut).
C8_TruncatedCleanText ==
  Scraped =>
    LET text == CleanText(GetText(toolIn.net.page))
        out == toolOut.result
    IN /\ Len(out) <= MaxScrapeChars
       /\ Len(out) <= Len(text)
       /\ Len(out) < MaxScrapeChars => out = text
       /\ \A i \in 1..Len(out) : out[i] = text[i] /\ out[i] # "x"
       /\ out # <<>> => out[1] \notin Whitespace
       /\ \A i \in 1..Len(out) - 1 :
            /\ ~(out[i] = "\n" /\ out[i + 1] = "\n")
            /\ ~(out[i] = " " /\ out[i + 1] \in Whitespace)
            /\ ~(out[i] = "\n" /\ out[i + 1] = " ")

\* a page whose cleaned text is longer than the limit: the cut ends on a line break
C8_Witness ==
  /\ Scraped
  /\ Len(CleanText(GetText(toolIn.net.page))) > MaxScrapeChars
  /\ Len(toolOut.result) = MaxScrapeChars
  /\ toolOut.result[MaxScrapeChars] = "\n"

\* the registered agents whose tool list is not empty
WithTools == {i \in DOMAIN tools : tools[i].tools # <<>>}

\* C10 as stated: exactly two of the eight registered agents have HTTP tools.
C10_TwoAgentsHaveTools ==
  /\ Len(tools) = 8
  /\ toolIn.agent \in {tools[i].name : i \in WithTools}
  /\ Cardinality(WithTools) = 2

\* C10, amended: exactly three of the eight registered agents have HTTP tools
\* (the two competitor agents have both tools, the writer the search); the tool
\* list of each of the other five is empty, and an invocation of a tool comes from
\* one of the three.
C10_ThreeAgentsHaveTools ==
  /\ Len(tools) = 8
  /\ Cardinality({tools[i].name : i \in DOMAIN tools}) = 8
  /\ Cardinality(WithTools) = 3
  /\ {tools[i].name : i \in WithTools} =
       {"identificador_concorrentes", "agente_scraping_concorrentes", "escritor"}
  /\ \A i \in DOMAIN tools : Range(tools[i].tools) \subseteq {SearchTool, ScrapeTool}
  /\ Cardinality({i \in DOMAIN tools : tools[i].tools = <<>>}) = 5
  /\ toolIn.agent \in {tools[i].name : i \in WithTools}

\* the writer, the third agent with a tool, has run the search
C10_Witness ==
  /\ toolOut.returned
  /\ toolIn.agent = "escritor"
  /\ toolIn.tool = SearchTool

\* the search returned what it made of a response
Searched == toolOut.returned /\ toolIn.tool = SearchTool /\ ~toolOut.failed

\* the smaller of two numbers
Min(a, b) == IF a < b THEN a ELSE b

\* C11: a successful search returns one Title/Link/Snippet block for each of the
\* first min(5, n) entries of "organic", in the order of the response, the blocks
\* joined by a line break; with "organic" missing or empty it returns exactly
\* "No results found.".
C11_FirstFiveInOrder ==
  Searched =>
    LET organic == IF toolIn.net.hasOrganic THEN toolIn.net.organic ELSE <<>>
        k == Min(5, Len(organic))
        out == toolOut.result
    IN IF k = 0 THEN out = <<"No results found.">>
       ELSE /\ Len(out) = 8 * k - 1
            /\ \A j \in 1..k :
                 LET at == 8 * (j - 1) IN
                   /\ out[at + 1] = "Title: "
                   /\ out[at + 2] = organic[j].title
                   /\ out[at + 3] = "\nLink: "
                   /\ out[at + 4] = organic[j].link
                   /\ out[at + 5] = "\nSnippet: "
                   /\ out[at + 6] = organic[j].snippet
                   /\ out[at + 7] = "\n"
                   /\ j < k => out[at + 8] = "\n"

\* a response with six entries, the first two different: five blocks come back
C11_Witness ==
  /\ Searched
  /\ Len(toolIn.net.organic) = 6
  /\ toolIn.net.organic[1].title = "t1"
  /\ toolIn.net.organic[2].title = "t2"
  /\ toolIn.net.organic[6].title = "t2"
  /\ Len(toolOut.result) = 39
  /\ toolOut.result[2] = "t1"
  /\ toolOut.result[34] = toolIn.net.organic[5].title

\* C12: when an iteration has saved its files, every blog file of its directory
\* was written by that iteration: none left by an earlier run of the directory
\* remains beside them.
C12_OnlyFilesOfLatestRun ==
  (JustSaved /\ writes # <<>>) =>
    \A key \in DOMAIN files :
      key[1] = output_dir => \E k \in 1..Len(writes) : writes[k] = key[2]

\* the while loop has been left
LoopEnded == pc \in {"exited", "aborted"}

\* C13 as stated: the loop has ended exactly when the text last read at the URL
\* prompt is exit or quit, case ignored.
C13_EndsOnlyOnExitWord == LoopEnded <=> Lower(rawInput) \in ExitWords

\* C13, amended: the loop is left by break exactly when the text read at the URL
\* prompt, as typed, is exit or quit with case ignored (otherwise it is left only
\* by an exception that is no instance of Exception); an input that is an exit
\* word only once stripped starts a run; the step that leaves makes no directory,
\* calls no model and writes no file, and nothing happens after it.
C13_BreakOnRawExitWord ==
  [][/\ (pc' = "exited") <=> (Lower(rawInput') \in ExitWords)
     /\ (pc' = "exited" /\ pc # "exited") =>
          /\ pc = "prompt"
          /\ dirs' = dirs
          /\ files' = files
          /\ runCalls' = runCalls
          /\ openStreams' = 0
     /\ (pc' = "aborted" /\ pc # "aborted") => last'[2] = "BaseException"
     /\ ~LoopEnded]_vars

\* Exit typed with a capital ends the loop, after " exit" had been taken for a
\* URL and given the directory exit
C13_Witness ==
  /\ pc = "exited"
  /\ rawInput = <<"E", "x", "i", "t">>
  /\ iter = 1
  /\ runCalls = 1
  /\ dirs = {<<"e", "x", "i", "t">>}

\* C14: one session is created, before the first prompt; every run_async call
\* is made with its id and the user id "user", also after a failed request, and
\* the session changes no more once created.
C14_OneSessionForAllRequests ==
  [][/\ pc' = "start" => (sessionsCreated' = 0 /\ iter' = 0 /\ runCalls' = 0)
     /\ pc' # "start" => (sessionsCreated' = 1 /\ session' \in SessionIds)
     /\ pc # "start" => session' = session
     /\ runCalls' > 0 => callArgs' = [user_id |-> "user", session_id |-> session']
     /\ runCalls' > runCalls => callArgs'.session_id = session]_vars

\* the second request, made after the first one failed, uses the session
C14_Witness ==
  /\ pc = "streaming"
  /\ iter = 2
  /\ runCalls = 2
  /\ last = <<"stream", "Exception">>
  /\ sessionsCreated = 1
  /\ callArgs = [user_id |-> "user", session_id |-> session]

\* the name ends with the text
EndsWith(name, e) ==
  Len(e) <= Len(name) /\ SubSeq(name, Len(name) - Len(e) + 1, Len(name)) = e

\* the entries of ALLOWED_EXTENSIONS that the claim lists as endings
Endings == SelectSeq(ALLOWED_EXTENSIONS, LAMBDA e : e[1] = ".")

\* C15: has_allowed_extension accepts every file whose name is "Dockerfile" or
\* ends with one of the listed extensions, so that collect_files returns, sorted
\* by lower-cased path, exactly the files of the tree whose name is so allowed
\* and whose full path holds no ignore pattern as a substring.
C15_CollectsEveryAllowedName ==
  report.back.done =>
    LET out == report.back.collected IN
    /\ \A i \in 1..Len(tree.back) :
         LET f == tree.back[i] IN
         (\E k \in 1..Len(out) : out[k] = FullPath(f)) <=>
           /\ f.name = Dockerfile \/ \E e \in Range(Endings) : EndsWith(f.name, e)
           /\ \A p \in Range(IGNORE_PATTERNS) : Find(FullPath(f), p, 1) = 0
    /\ \A k \in 1..Len(out) : \E i \in 1..Len(tree.back) : out[k] = FullPath(tree.back[i])
    /\ \A j, k \in 1..Len(out) : j < k => Less(Lower(out[j]), Lower(out[k]))

\* the files of the frontend tree that pass the filters, are read, and whose
\* stripped content is / is not empty
ReadWith == {i \in 1..Len(tree.front) :
               LET f == tree.front[i] IN Matches(f) /\ Reads(f) /\ Strip(f.text) # <<>>}

ReadEmpty == {i \in 1..Len(tree.front) :
                LET f == tree.front[i] IN Matches(f) /\ Reads(f) /\ Strip(f.text) = <<>>}

\* C16: in the report of scan_back.py every collected file is in exactly one of
\* the two summary lists, has a content section exactly when it is in the list
\* of files with content, and a collected file that cannot be read is listed
\* without content; in build_docs.py the two totals count the files read with
\* and without content, and a matching file whose read fails is in neither list.
C16_ListsAndTotals ==
  /\ report.back.done =>
       LET r == report.back IN
       /\ \A p \in Range(r.collected) :
            (p \in Range(r.withContent)) # (p \in Range(r.withoutContent))
       /\ Len(r.withContent) + Len(r.withoutContent) = Len(r.collected)
       /\ Range(r.withContent) \cup Range(r.withoutContent) \subseteq Range(r.collected)
       /\ Range(r.sections) = Range(r.withContent)
       /\ Len(r.sections) = Len(r.withContent)
       /\ \A i \in 1..Len(tree.back) :
            LET f == tree.back[i] IN
            (FullPath(f) \in Range(r.collected) /\ ~f.readable)
              => FullPath(f) \in Range(r.withoutContent)
  /\ report.front.done =>
       LET r == report.front IN
       /\ r.totalWith = Cardinality(ReadWith)
       /\ r.totalEmpty = Cardinality(ReadEmpty)
       /\ Range(r.files_with_content) = {RelPath(tree.front[i]) : i \in ReadWith}
       /\ Range(r.empty_files) = {RelPath(tree.front[i]) : i \in ReadEmpty}
       /\ \A i \in 1..Len(tree.front) :
            LET f == tree.front[i] IN
            (Matches(f) /\ ~Reads(f))
              => RelPath(f) \notin Range(r.files_with_content) \cup Range(r.empty_files)

\* both scripts have run: scan_back.py collected a file it could not read and
\* one with content; build_docs.py met a matching file that does not decode
C16_Witness ==
  /\ report.back.done
  /\ report.front.done
  /\ report.back.collected = <<<<".", "/", "a", "/", "B", ".", "s", "q", "l">>, <<".", "/", "D", "o", "c", "k", "e", "r", "f", "i", "l", "e">>>>
  /\ report.back.withContent = <<<<".", "/", "D", "o", "c", "k", "e", "r", "f", "i", "l", "e">>>>
  /\ report.back.withoutContent = <<<<".", "/", "a", "/", "B", ".", "s", "q", "l">>>>
  /\ report.back.sections = <<<<".", "/", "D", "o", "c", "k", "e", "r", "f", "i", "l", "e">>>>
  /\ Len(tree.front) = 2
  /\ report.front.readErrors = <<<<"a", "/", "z", ".", "c", "s", "s">>>>
  /\ report.front.totalWith = 1
  /\ report.front.totalEmpty = 0

====
